---- MODULE Spec2Model ----
(***************************************************************************)
(* Model of src/web/api/v2/api_v2_claim.c: the proof token                 *)
(* (netdata_random_session_id), its file, and the request handler          *)
(* api_v2_claim().                                                         *)
(*                                                                         *)
(* Strings are sequences of one-character strings.  A UUID is modelled as  *)
(* a number of two hex digits (0 is the null UUID); its text form is       *)
(* "h-l" (one hyphen between the two digits), where the library's form is  *)
(* 8-4-4-4-12.  uuid_generate_random() is modelled as returning a value    *)
(* that was never returned before and that no client has presented yet     *)
(* (the n-th call returns RandomUuid(n)); clients can present only strings *)
(* formed from values already generated, or strings that are no UUID.      *)
(*                                                                         *)
(* Each access of the data the threads share (the token, the static guid   *)
(* buffer, the recorded path, the file) is one step.  The token is 16      *)
(* bytes written and read without a lock; a read that overlaps a write     *)
(* sees bytes of both values.  For netdata_random_session_id_matches()     *)
(* such a read compares unequal to every key a client can hold unless it   *)
(* is the old value whole, so its outcomes are those of the read placed    *)
(* before or after the write, which the interleaving of steps gives.       *)
(* uuid_unparse_lower() reads the token and then writes guid: two steps,   *)
(* so that a thread may write into guid the text of a token that another   *)
(* thread has replaced since.                                              *)
(*                                                                         *)
(* A request is run by a thread of the web server; req[t] holds the        *)
(* locals of api_v2_claim() and of the netdata_random_session_id_generate()*)
(* call it is in, and req[t].pc the place the thread is at.  Fields named  *)
(* h_... are history fields: they record what the request did and are      *)
(* never read by the modelled code.                                        *)
(***************************************************************************)
EXTENDS Naturals, Integers, Sequences, FiniteSets, TLC

\* ------------------------------------------------------------------ bounds

\* requests begun in a run (each begins with api_v2_claim() being entered)
MaxRequests == 3

\* length of the longest candidate key netdata_random_session_id_matches() is
\* applied to on its own
MaxKeyLen == 3


\* length of the longest string check_claim_param() is applied to on its own
MaxParamLen == 3


\* ------------------------------------------------------------- base values

Threads == {1, 2}

\* the null pointer (a char * that is NULL, a file that does not exist)
NULL == <<"NULL">>

CLOUD_STATUS == {"AVAILABLE", "BANNED", "OFFLINE", "INDIRECT", "ONLINE"}

HTTP_RESP_OK == 200
HTTP_RESP_BAD_REQUEST == 400
HTTP_RESP_FORBIDDEN == 403

\* the third argument of open() in netdata_random_session_id_generate()
OpenMode == 640

HexLower == <<"0","1","2","3","4","5","6","7","8","9","a","b","c","d","e","f">>
HexUpper == <<"0","1","2","3","4","5","6","7","8","9","A","B","C","D","E","F">>

isxdigit(c) == \E i \in 1..16 : HexLower[i] = c \/ HexUpper[i] = c

HexValue(c) == (CHOOSE i \in 1..16 : HexLower[i] = c \/ HexUpper[i] = c) - 1

isalnum(c) ==
    c \in {"0","1","2","3","4","5","6","7","8","9",
           "a","b","c","d","e","f","g","h","i","j","k","l","m",
           "n","o","p","q","r","s","t","u","v","w","x","y","z",
           "A","B","C","D","E","F","G","H","I","J","K","L","M",
           "N","O","P","Q","R","S","T","U","V","W","X","Y","Z"}

\* ---------------------------------------------------------- libuuid calls

\* the n-th value uuid_generate_random() returns: distinct, never null
RandomUuid(n) == 9 + n

uuid_is_null(u) == u = 0

\* the canonical lowercase text of a UUID
uuid_unparse_lower(u) == << HexLower[(u \div 16) + 1], "-", HexLower[(u % 16) + 1] >>

\* uuid_parse() returns -1 unless the text has the UUID shape; it accepts hex
\* digits of either case
uuid_parse_ok(s) ==
    /\ s # NULL
    /\ Len(s) = 3
    /\ s[2] = "-"
    /\ isxdigit(s[1])
    /\ isxdigit(s[3])

uuid_parse_value(s) == 16 * HexValue(s[1]) + HexValue(s[3])

uuid_compare(a, b) == IF a = b THEN 0 ELSE IF a < b THEN -1 ELSE 1

\* ------------------------------------------------------------------- state

VARIABLES
    netdata_random_session_id,           \* the live token (0: null)
    netdata_random_session_id_filename,  \* NULL or the recorded path
    guid,          \* the static buffer of netdata_random_session_id_generate()
    file,          \* content of the proof file (NULL: no file at the path)
    req,           \* per thread: the locals of the request it runs
    crashed,       \* the process has died
    ngenerated,    \* calls of uuid_generate_random() so far
    nrequests,     \* requests begun so far
    h_used_keys,   \* history: keys compared by netdata_random_session_id_matches()
    h_claims       \* history: per claim_agent() call, the token that authorised it

vars == << netdata_random_session_id, netdata_random_session_id_filename, guid,
           file, req, crashed, ngenerated, nrequests, h_used_keys, h_claims >>

\* "%s/netdata_random_session_id" in netdata_configured_varlib_dir
ProofFilePath == << "/", "v", "/", "i", "d" >>

Idle ==
    [ pc |-> "idle", key |-> NULL, token |-> NULL, rooms |-> NULL, base_url |-> NULL,
      status |-> "AVAILABLE", can_be_claimed |-> FALSE, success |-> FALSE,
      msg |-> NULL, wb |-> <<>>, code |-> 0,
      ret |-> TRUE, fd |-> "none", ret_to |-> "idle", uu |-> 0, mode |-> 0,
      h_status |-> "AVAILABLE", h_compared |-> FALSE, h_live |-> 0, h_auth |-> 0,
      h_replay |-> FALSE, h_rotations |-> 0, h_claim_agent |-> 0, h_reload |-> 0,
      h_sid_at_claim |-> 0, h_claim_ok |-> FALSE, h_written |-> FALSE,
      h_key_in_file |-> FALSE, h_prev |-> 0, h_new |-> 0 ]

Init ==
    /\ netdata_random_session_id = 0
    /\ netdata_random_session_id_filename = NULL
    /\ guid = <<>>
    /\ file \in {NULL}
    /\ req = [t \in Threads |-> Idle]
    /\ crashed = FALSE
    /\ ngenerated = 0
    /\ nrequests = 0
    /\ h_used_keys = {}
    /\ h_claims = <<>>

\* ------------------------------------------------- pure functions of the file

\* the match with the test for the null token left out
MatchesWithoutNullTest(id, key) ==
    IF ~uuid_parse_ok(key) THEN FALSE
    ELSE IF uuid_compare(id, uuid_parse_value(key)) = 0 THEN TRUE
    ELSE FALSE


\* netdata_random_session_id_matches(guid), for the live token id
netdata_random_session_id_matches(id, key) ==
    IF uuid_is_null(id) THEN FALSE
    ELSE IF ~uuid_parse_ok(key) THEN FALSE
    ELSE IF uuid_compare(id, uuid_parse_value(key)) = 0 THEN TRUE
    ELSE FALSE

\* the test of the character at position i alone, with no loop
check_claim_param_first(s, i) ==
    isalnum(s[i]) \/ s[i] = "." \/ s[i] = "," \/ s[i] = "-" \/ s[i] = ":"
       \/ s[i] = "/" \/ s[i] = "_"


RECURSIVE check_claim_param_from(_, _)
\* the do-while loop of check_claim_param(), at position i of s
check_claim_param_from(s, i) ==
    IF isalnum(s[i]) \/ s[i] = "." \/ s[i] = "," \/ s[i] = "-" \/ s[i] = ":"
          \/ s[i] = "/" \/ s[i] = "_"
    THEN (IF i < Len(s) THEN check_claim_param_from(s, i + 1) ELSE TRUE)
    ELSE FALSE

check_claim_param(s) ==
    IF s = NULL \/ s = <<>> THEN TRUE ELSE check_claim_param_from(s, 1)

\* the switch with INDIRECT among the cases that clear can_be_claimed
CanBeClaimedNotIndirect(status) ==
    CASE status \in {"AVAILABLE", "OFFLINE"} -> TRUE
      [] status \in {"BANNED", "ONLINE", "INDIRECT"} -> FALSE


\* the switch with BANNED among the cases that set can_be_claimed
CanBeClaimedBannedToo(status) ==
    CASE status \in {"AVAILABLE", "OFFLINE", "INDIRECT", "BANNED"} -> TRUE
      [] status \in {"ONLINE"} -> FALSE

\* the switch on the status in api_v2_claim()
CanBeClaimed(status) ==
    CASE status \in {"AVAILABLE", "OFFLINE", "INDIRECT"} -> TRUE
      [] status \in {"BANNED", "ONLINE"} -> FALSE

\* the parameter test with the test of rooms left out
ParametersInvalidNoRooms(token, base_url, rooms) ==
    \/ token = NULL
    \/ base_url = NULL
    \/ ~check_claim_param(token)
    \/ ~check_claim_param(base_url)

\* the parameter test that guards the claim
ParametersInvalid(token, base_url, rooms) ==
    \/ token = NULL
    \/ base_url = NULL
    \/ ~check_claim_param(token)
    \/ ~check_claim_param(base_url)
    \/ (rooms # NULL /\ ~check_claim_param(rooms))

\* ------------------------------------------------------------ the response

\* buffer_flush() + buffer_json_initialize() + buffer_json_cloud_status()
JsonWithCloudStatus(status) == << <<"cloud", status>> >>

JsonBool(b) == IF b THEN "true" ELSE "false"

\* buffer_reset() + buffer_strcat(): a plain text body
TextBody(text) == << <<"text", text>> >>

\* -------------------------------------------------------------- requests

\* the line an operator reads from the proof file, if the file holds one
FileKeys ==
    IF file # NULL /\ Len(file) > 1 /\ file[Len(file)] = "\n"
    THEN { SubSeq(file, 1, Len(file) - 1) }
    ELSE {}

\* while no token has been generated, the text of the null UUID; once one
\* has, its text or a text that is no UUID
TokenKeys ==
    IF netdata_random_session_id = 0 THEN { <<"0", "-", "0">> }
    ELSE { uuid_unparse_lower(netdata_random_session_id), <<"g", "-", "a">> }

\* values a client may send as key: nothing; any key that was compared before;
\* the line read from the proof file; the text of the token or a text that is
\* none
KeyInputs == {NULL} \cup h_used_keys \cup FileKeys \cup TokenKeys

TokenInputs == {NULL, <<"a", "1">>, <<"a", ";">>}
UrlInputs == {NULL, <<"h", ":", "/", "x", ".", "y">>, <<"h", " ", "x">>}
RoomsInputs == {NULL, <<"r", "-", "1", ",", "r", "_", "2">>, <<"r", "'">>}

Set(t, r) == req' = [req EXCEPT ![t] = r]

\* a call of netdata_random_session_id_generate() that returns to place retTo
CallGenerate(r, retTo) ==
    [r EXCEPT !.pc = "g_random", !.ret_to = retTo, !.ret = TRUE, !.fd = "none"]

\* api_v2_claim(), from the parsing of the url to the can_be_claimed member,
\* for a request whose parameters and whose cloud status are drawn from the sets
BeginWith(t, keys, tokens, urls, roomss, statuses) ==
    /\ ~crashed
    /\ req[t].pc = "idle"
    /\ nrequests < MaxRequests
    /\ \E key \in keys, token \in tokens, rooms \in roomss,
          base_url \in urls, status \in statuses :
         Set(t, [Idle EXCEPT
                   !.pc = "auth", !.key = key, !.token = token, !.rooms = rooms,
                   !.base_url = base_url, !.status = status, !.h_status = status,
                   !.can_be_claimed = CanBeClaimed(status),
                   !.wb = Append(JsonWithCloudStatus(status),
                                 <<"can_be_claimed", JsonBool(CanBeClaimed(status))>>)])
    /\ nrequests' = nrequests + 1
    /\ UNCHANGED << netdata_random_session_id, netdata_random_session_id_filename,
                    guid, file, crashed, ngenerated, h_used_keys, h_claims >>

Begin(t) == BeginWith(t, KeyInputs, TokenInputs, UrlInputs, RoomsInputs, CLOUD_STATUS)

\* the requests of the two-thread specification: claimable, with valid
\* parameters, and with no key, a wrong key or the text of the live token
BeginConc(t) ==
    BeginWith(t, ({NULL} \cup TokenKeys) \ h_used_keys, {<<"a", "1">>},
              {<<"h", ":", "/", "x", ".", "y">>}, {NULL}, {"AVAILABLE"})

\* the key did not match, answered with the code of invalid parameters
KeyRejectedBadRequest(r) ==
    [r EXCEPT !.wb = TextBody("invalid key"), !.h_rotations = r.h_rotations + 1,
              !.pc = "g_random", !.ret_to = "return_400", !.ret = TRUE, !.fd = "none"]

\* the key did not match: "invalid key", rotate, then 403
KeyRejected(r) ==
    CallGenerate([r EXCEPT !.wb = TextBody("invalid key"),
                           !.h_rotations = r.h_rotations + 1], "return_403")

\* if(can_be_claimed && key) and the match of the key
Authenticate(t) ==
    LET r == req[t]
        c == [r EXCEPT !.h_compared = TRUE, !.h_live = netdata_random_session_id,
                       !.h_replay = (r.key \in h_used_keys),
                       !.h_key_in_file = (file = r.key \o <<"\n">>)]
    IN
    /\ ~crashed
    /\ r.pc = "auth"
    /\ IF r.can_be_claimed /\ r.key # NULL
       THEN /\ h_used_keys' = h_used_keys \cup {r.key}
            /\ IF ~netdata_random_session_id_matches(netdata_random_session_id, r.key)
               THEN Set(t, KeyRejected(c))
               ELSE Set(t, [c EXCEPT !.pc = "validate",
                                     !.h_auth = netdata_random_session_id])
       ELSE /\ Set(t, [r EXCEPT !.pc = "instructions"])
            /\ UNCHANGED h_used_keys
    /\ UNCHANGED << netdata_random_session_id, netdata_random_session_id_filename,
                    guid, file, crashed, ngenerated, nrequests, h_claims >>

\* "invalid parameters" and 400 with the rotation left out
ParametersRejectedNoRotate(r) ==
    [r EXCEPT !.wb = TextBody("invalid parameters"), !.pc = "return_400"]

\* the parameters are not valid: "invalid parameters", rotate, then 400
ParametersRejected(r) ==
    CallGenerate([r EXCEPT !.wb = TextBody("invalid parameters"),
                           !.h_rotations = r.h_rotations + 1], "return_400")

\* the claim with the rotation before it left out
ParametersAcceptedNoRotate(r) == [r EXCEPT !.pc = "claim"]

\* the parameters are valid: rotate, then claim
ParametersAccepted(r) ==
    CallGenerate([r EXCEPT !.h_rotations = r.h_rotations + 1], "claim")

\* the test of token, url and rooms, and the rotation that follows either way
Validate(t) ==
    LET r == req[t] IN
    /\ ~crashed
    /\ r.pc = "validate"
    /\ IF ParametersInvalid(r.token, r.base_url, r.rooms)
       THEN Set(t, ParametersRejected(r))
       ELSE Set(t, ParametersAccepted(r))
    /\ UNCHANGED << netdata_random_session_id, netdata_random_session_id_filename,
                    guid, file, crashed, ngenerated, nrequests, h_used_keys,
                    h_claims >>

\* return HTTP_RESP_FORBIDDEN / HTTP_RESP_BAD_REQUEST
ReturnError(t) ==
    LET r == req[t] IN
    /\ ~crashed
    /\ r.pc \in {"return_403", "return_400"}
    /\ Set(t, [r EXCEPT !.pc = "done",
                        !.code = IF r.pc = "return_403" THEN HTTP_RESP_FORBIDDEN
                                 ELSE HTTP_RESP_BAD_REQUEST])
    /\ UNCHANGED << netdata_random_session_id, netdata_random_session_id_filename,
                    guid, file, crashed, ngenerated, nrequests, h_used_keys,
                    h_claims >>

\* ------------------------------------ netdata_random_session_id_generate()

\* bytes written at offset off of a file that holds content
WriteAt(content, off, bytes) ==
    LET n == IF Len(content) > off + Len(bytes) THEN Len(content) ELSE off + Len(bytes)
    IN [i \in 1..n |->
          IF i > off /\ i <= off + Len(bytes) THEN bytes[i - off]
          ELSE IF i <= Len(content) THEN content[i]
          ELSE "\\0"]

\* uuid_generate_random(netdata_random_session_id)
GenRandom(t) ==
    LET r == req[t] IN
    /\ ~crashed
    /\ r.pc = "g_random"
    /\ ngenerated' = ngenerated + 1
    /\ netdata_random_session_id' = RandomUuid(ngenerated + 1)
    /\ Set(t, [r EXCEPT !.pc = "g_unparse", !.h_written = FALSE,
                        !.h_prev = netdata_random_session_id,
                        !.h_new = RandomUuid(ngenerated + 1)])
    /\ UNCHANGED << netdata_random_session_id_filename, guid, file, crashed,
                    nrequests, h_used_keys, h_claims >>

\* uuid_unparse_lower(netdata_random_session_id, guid) reads the token
GenUnparse(t) ==
    LET r == req[t] IN
    /\ ~crashed
    /\ r.pc = "g_unparse"
    /\ Set(t, [r EXCEPT !.pc = "g_unparse_out", !.uu = netdata_random_session_id])
    /\ UNCHANGED << netdata_random_session_id, netdata_random_session_id_filename,
                    guid, file, crashed, ngenerated, nrequests, h_used_keys,
                    h_claims >>

\* uuid_unparse_lower(netdata_random_session_id, guid) writes the text of the
\* token it read into the static buffer
GenUnparseOut(t) ==
    LET r == req[t] IN
    /\ ~crashed
    /\ r.pc = "g_unparse_out"
    /\ guid' = uuid_unparse_lower(r.uu)
    /\ Set(t, [r EXCEPT !.pc = "g_unlink", !.uu = 0])
    /\ UNCHANGED << netdata_random_session_id, netdata_random_session_id_filename,
                    file, crashed, ngenerated, nrequests, h_used_keys, h_claims >>

\* (void)unlink(filename): removes the file; there is nothing to do when no
\* file is there.  A descriptor another thread holds on the removed file stays
\* open on it.
GenUnlink(t) ==
    LET r == req[t] IN
    /\ ~crashed
    /\ r.pc = "g_unlink"
    /\ file' = NULL
    /\ req' = [u \in Threads |->
                 IF u = t THEN [r EXCEPT !.pc = "g_open"]
                 ELSE IF req[u].fd = "linked" THEN [req[u] EXCEPT !.fd = "orphan"]
                 ELSE req[u]]
    /\ UNCHANGED << netdata_random_session_id, netdata_random_session_id_filename,
                    guid, crashed, ngenerated, nrequests, h_used_keys, h_claims >>

\* (void)unlink(filename) fails on a file that is there; the result is ignored
GenUnlinkFault(t) ==
    LET r == req[t] IN
    /\ ~crashed
    /\ r.pc = "g_unlink"
    /\ file # NULL
    /\ Set(t, [r EXCEPT !.pc = "g_open"])
    /\ UNCHANGED << netdata_random_session_id, netdata_random_session_id_filename,
                    guid, file, crashed, ngenerated, nrequests, h_used_keys, h_claims >>

\* open(filename, O_WRONLY|O_CREAT|O_TRUNC|O_CLOEXEC, 640) returns a descriptor
\* on the file, created or truncated
GenOpen(t) ==
    LET r == req[t] IN
    /\ ~crashed
    /\ r.pc = "g_open"
    /\ file' = <<>>
    /\ Set(t, [r EXCEPT !.pc = "g_write", !.fd = "linked", !.mode = OpenMode])
    /\ UNCHANGED << netdata_random_session_id, netdata_random_session_id_filename,
                    guid, crashed, ngenerated, nrequests, h_used_keys, h_claims >>

\* open() returns -1 and the token of before the call is put back
GenOpenFaultRestores(t) ==
    LET r == req[t] IN
    /\ ~crashed
    /\ r.pc = "g_open"
    /\ netdata_random_session_id' = r.h_prev
    /\ Set(t, [r EXCEPT !.pc = "g_record", !.ret = FALSE, !.mode = OpenMode])
    /\ UNCHANGED << netdata_random_session_id_filename, guid, file, crashed,
                    ngenerated, nrequests, h_used_keys, h_claims >>


\* open() returns -1: the error is logged and ret = false
GenOpenFault(t) ==
    LET r == req[t] IN
    /\ ~crashed
    /\ r.pc = "g_open"
    /\ Set(t, [r EXCEPT !.pc = "g_record", !.ret = FALSE, !.mode = OpenMode])
    /\ UNCHANGED << netdata_random_session_id, netdata_random_session_id_filename,
                    guid, file, crashed, ngenerated, nrequests, h_used_keys, h_claims >>

\* write(fd, guid, UUID_STR_LEN - 2): the last character is not written
GenWriteShort(t) ==
    LET r == req[t] IN
    /\ ~crashed
    /\ r.pc = "g_write"
    /\ file' = IF r.fd = "linked" THEN WriteAt(file, 0, SubSeq(guid, 1, Len(guid) - 1))
               ELSE file
    /\ Set(t, [r EXCEPT !.pc = "g_newline"])
    /\ UNCHANGED << netdata_random_session_id, netdata_random_session_id_filename,
                    guid, crashed, ngenerated, nrequests, h_used_keys, h_claims >>

\* write(fd, guid, UUID_STR_LEN - 1) writes all of guid
GenWrite(t) ==
    LET r == req[t] IN
    /\ ~crashed
    /\ r.pc = "g_write"
    /\ file' = IF r.fd = "linked" THEN WriteAt(file, 0, guid) ELSE file
    /\ Set(t, [r EXCEPT !.pc = "g_newline"])
    /\ UNCHANGED << netdata_random_session_id, netdata_random_session_id_filename,
                    guid, crashed, ngenerated, nrequests, h_used_keys, h_claims >>

\* write(fd, guid, UUID_STR_LEN - 1) returns an error, or writes only the first
\* n bytes: the error is logged, ret = false, close(fd)
GenWriteFault(t) ==
    LET r == req[t] IN
    /\ ~crashed
    /\ r.pc = "g_write"
    /\ \E n \in 0..1 :
         file' = IF r.fd = "linked" THEN WriteAt(file, 0, SubSeq(guid, 1, n)) ELSE file
    /\ Set(t, [r EXCEPT !.pc = "g_record", !.ret = FALSE, !.fd = "none"])
    /\ UNCHANGED << netdata_random_session_id, netdata_random_session_id_filename,
                    guid, crashed, ngenerated, nrequests, h_used_keys, h_claims >>

\* write(fd, "\n", 1) and close(fd)
GenNewline(t) ==
    LET r == req[t] IN
    /\ ~crashed
    /\ r.pc = "g_newline"
    /\ file' = IF r.fd = "linked" THEN WriteAt(file, Len(guid), <<"\n">>) ELSE file
    /\ Set(t, [r EXCEPT !.pc = "g_record", !.fd = "none", !.h_written = TRUE])
    /\ UNCHANGED << netdata_random_session_id, netdata_random_session_id_filename,
                    guid, crashed, ngenerated, nrequests, h_used_keys, h_claims >>

\* write(fd, "\n", 1) fails, its result is unused; close(fd)
GenNewlineFault(t) ==
    LET r == req[t] IN
    /\ ~crashed
    /\ r.pc = "g_newline"
    /\ Set(t, [r EXCEPT !.pc = "g_record", !.fd = "none"])
    /\ UNCHANGED << netdata_random_session_id, netdata_random_session_id_filename,
                    guid, file, crashed, ngenerated, nrequests, h_used_keys, h_claims >>

\* the path is recorded when the write succeeded; return ret, which no caller
\* reads, to the place of the call
GenRecord(t) ==
    LET r == req[t] IN
    /\ ~crashed
    /\ r.pc = "g_record"
    /\ netdata_random_session_id_filename' =
          IF r.ret /\ (netdata_random_session_id_filename = NULL
                         \/ netdata_random_session_id_filename # ProofFilePath)
          THEN ProofFilePath
          ELSE netdata_random_session_id_filename
    /\ Set(t, [r EXCEPT !.pc = r.ret_to, !.ret = TRUE, !.ret_to = "idle",
                        !.mode = 0, !.h_prev = 0, !.h_new = 0])
    /\ UNCHANGED << netdata_random_session_id, guid, file, crashed, ngenerated,
                    nrequests, h_used_keys, h_claims >>

\* ------------------------------------------------ api_v2_claim(), continued

\* what claim_agent_failure_reason_get() may return
FailureReasons == {"network unreachable"}

\* the claim with can_be_claimed left true after a claim that succeeded
ClaimKeepsClaimable(t) ==
    LET r == [req[t] EXCEPT !.h_claim_agent = @ + 1,
                            !.h_sid_at_claim = netdata_random_session_id] IN
    /\ ~crashed
    /\ req[t].pc = "claim"
    /\ h_claims' = Append(h_claims, r.h_auth)
    /\ \/ \E online \in CLOUD_STATUS \ {"AVAILABLE"} :
            /\ Set(t, [r EXCEPT !.pc = "refresh", !.msg = "ok", !.success = TRUE,
                                !.status = online,
                                !.h_reload = @ + 1, !.h_claim_ok = TRUE])
       \/ \E reason \in FailureReasons :
            /\ Set(t, [r EXCEPT !.pc = "refresh", !.msg = reason])
    /\ UNCHANGED << netdata_random_session_id, netdata_random_session_id_filename,
                    guid, file, crashed, ngenerated, nrequests, h_used_keys >>

\* the claim with claim_reload_and_wait_online() called after a failure too
ClaimReloadsAlways(t) ==
    LET r == [req[t] EXCEPT !.h_claim_agent = @ + 1,
                            !.h_sid_at_claim = netdata_random_session_id] IN
    /\ ~crashed
    /\ req[t].pc = "claim"
    /\ h_claims' = Append(h_claims, r.h_auth)
    /\ \/ \E online \in CLOUD_STATUS \ {"AVAILABLE"} :
            /\ Set(t, [r EXCEPT !.pc = "refresh", !.msg = "ok", !.success = TRUE,
                                !.can_be_claimed = FALSE, !.status = online,
                                !.h_reload = @ + 1, !.h_claim_ok = TRUE])
       \/ \E reason \in FailureReasons, online \in CLOUD_STATUS :
            /\ Set(t, [r EXCEPT !.pc = "refresh", !.msg = reason, !.status = online,
                                !.h_reload = @ + 1])
    /\ UNCHANGED << netdata_random_session_id, netdata_random_session_id_filename,
                    guid, file, crashed, ngenerated, nrequests, h_used_keys >>


\* claim_agent() and, if it returned true, claim_reload_and_wait_online()
Claim(t) ==
    LET r == [req[t] EXCEPT !.h_claim_agent = @ + 1,
                            !.h_sid_at_claim = netdata_random_session_id] IN
    /\ ~crashed
    /\ req[t].pc = "claim"
    /\ h_claims' = Append(h_claims, r.h_auth)
    /\ \/ \E online \in CLOUD_STATUS \ {"AVAILABLE"} :
            /\ Set(t, [r EXCEPT !.pc = "refresh", !.msg = "ok", !.success = TRUE,
                                !.can_be_claimed = FALSE, !.status = online,
                                !.h_reload = @ + 1, !.h_claim_ok = TRUE])
       \/ \E reason \in FailureReasons :
            /\ Set(t, [r EXCEPT !.pc = "refresh", !.msg = reason])
    /\ UNCHANGED << netdata_random_session_id, netdata_random_session_id_filename,
                    guid, file, crashed, ngenerated, nrequests, h_used_keys >>

\* the report is started again with the status of now, then success and message
Refresh(t) ==
    LET r == req[t] IN
    /\ ~crashed
    /\ r.pc = "refresh"
    /\ \E status \in CLOUD_STATUS :
         Set(t, [r EXCEPT !.pc = "instructions",
                          !.wb = JsonWithCloudStatus(status)
                                   \o << <<"success", JsonBool(r.success)>>,
                                         <<"message", r.msg>> >>])
    /\ UNCHANGED << netdata_random_session_id, netdata_random_session_id_filename,
                    guid, file, crashed, ngenerated, nrequests, h_used_keys,
                    h_claims >>

\* if(can_be_claimed), and netdata_random_session_id_get_filename() up to its
\* call of netdata_random_session_id_generate()
Instructions(t) ==
    LET r == req[t] IN
    /\ ~crashed
    /\ r.pc = "instructions"
    /\ IF r.can_be_claimed
       THEN IF netdata_random_session_id_filename = NULL
            THEN Set(t, CallGenerate(r, "build"))
            ELSE Set(t, [r EXCEPT !.pc = "build"])
       ELSE Set(t, [r EXCEPT !.pc = "finish"])
    /\ UNCHANGED << netdata_random_session_id, netdata_random_session_id_filename,
                    guid, file, crashed, ngenerated, nrequests, h_used_keys,
                    h_claims >>

\* strchr(os_filename, ' ')
HasSpace(s) == \E i \in 1..Len(s) : s[i] = " "

\* the members key_filename, cmd and help for the file name given
InstructionMembers(filename) ==
    LET os_quote == IF HasSpace(filename) THEN <<"\"">> ELSE <<>>
    IN << <<"key_filename", filename>>,
          <<"cmd", <<"s","u","d","o"," ","c","a","t"," ">> \o os_quote \o filename \o os_quote>>,
          <<"help", "We need to verify this server is yours.">> >>

\* the file name get_filename() returns and the instructions built from it.
\* A NULL file name is handed to strchr(): the process dies, or the read of
\* address 0 yields some bytes and the request goes on with them.
Build(t) ==
    LET r == req[t] IN
    /\ ~crashed
    /\ r.pc = "build"
    /\ \/ /\ netdata_random_session_id_filename # NULL
          /\ Set(t, [r EXCEPT !.pc = "finish",
                              !.wb = r.wb \o InstructionMembers(netdata_random_session_id_filename)])
          /\ UNCHANGED crashed
       \/ /\ netdata_random_session_id_filename = NULL
          /\ crashed' = TRUE
          /\ UNCHANGED req
       \/ /\ netdata_random_session_id_filename = NULL
          /\ Set(t, [r EXCEPT !.pc = "finish",
                              !.wb = r.wb \o InstructionMembers(<<"?">>)])
          /\ UNCHANGED crashed
    /\ UNCHANGED << netdata_random_session_id, netdata_random_session_id_filename,
                    guid, file, ngenerated, nrequests, h_used_keys, h_claims >>

\* buffer_json_agents_v2(), buffer_json_finalize(), return HTTP_RESP_OK
Finish(t) ==
    LET r == req[t] IN
    /\ ~crashed
    /\ r.pc = "finish"
    /\ Set(t, [r EXCEPT !.pc = "done", !.code = HTTP_RESP_OK,
                        !.wb = Append(r.wb, <<"agents", "[]">>)])
    /\ UNCHANGED << netdata_random_session_id, netdata_random_session_id_filename,
                    guid, file, crashed, ngenerated, nrequests, h_used_keys,
                    h_claims >>

\* the response has been sent; the thread is free for the next request
Reset(t) ==
    /\ ~crashed
    /\ req[t].pc = "done"
    /\ Set(t, Idle)
    /\ UNCHANGED << netdata_random_session_id, netdata_random_session_id_filename,
                    guid, file, crashed, ngenerated, nrequests, h_used_keys,
                    h_claims >>

\* ------------------------------------------------------------ specifications

Run(t) ==
    \/ Authenticate(t) \/ Validate(t) \/ ReturnError(t)
    \/ GenRandom(t) \/ GenUnparse(t) \/ GenUnparseOut(t) \/ GenUnlink(t)
    \/ GenOpen(t)
    \/ GenWrite(t) \/ GenNewline(t) \/ GenRecord(t)
    \/ Claim(t) \/ Refresh(t) \/ Instructions(t) \/ Build(t) \/ Finish(t)
    \/ Reset(t)

\* the file operations of netdata_random_session_id_generate() that fail
Fault(t) ==
    GenUnlinkFault(t) \/ GenOpenFault(t) \/ GenWriteFault(t) \/ GenNewlineFault(t)

\* requests that do not overlap: one thread serves them one after the other,
\* and any file operation may fail
Next == Begin(1) \/ Run(1) \/ Fault(1)

Spec == Init /\ [][Next]_vars

\* requests served by two threads at once, with file operations that succeed
NextConc == \E t \in Threads : BeginConc(t) \/ Run(t)

SpecConc == Init /\ [][NextConc]_vars

\* ----------------------- netdata_random_session_id_matches() on its own

\* the strings of at most n characters drawn from chars
Strings(chars, n) == UNION { [1..k -> chars] : k \in 0..n }

\* the characters of the candidate keys: hex digits of either case, a letter
\* that is no hex digit, the hyphen
KeyChars == {"0", "a", "A", "b", "-", "g"}

\* the live token when the match is made: none yet, or a generated one
MatchTokens == {0, RandomUuid(1), RandomUuid(2), RandomUuid(151)}

\* a thread is about to call netdata_random_session_id_matches(key)
InitMatches ==
    /\ netdata_random_session_id \in MatchTokens
    /\ netdata_random_session_id_filename = NULL
    /\ guid = <<>>
    /\ file = NULL
    /\ \E key \in Strings(KeyChars, MaxKeyLen) :
         req = [t \in Threads |->
                  IF t = 1 THEN [Idle EXCEPT !.pc = "matches", !.key = key] ELSE Idle]
    /\ crashed = FALSE
    /\ ngenerated = IF netdata_random_session_id = 0 THEN 0
                    ELSE netdata_random_session_id - RandomUuid(0)
    /\ nrequests = 0
    /\ h_used_keys = {}
    /\ h_claims = <<>>

\* netdata_random_session_id_matches(key) is called and returns
MatchesCall(t) ==
    LET r == req[t] IN
    /\ r.pc = "matches"
    /\ Set(t, [r EXCEPT !.pc = "matched",
                        !.ret = netdata_random_session_id_matches(
                                    netdata_random_session_id, r.key)])
    /\ UNCHANGED << netdata_random_session_id, netdata_random_session_id_filename,
                    guid, file, crashed, ngenerated, nrequests, h_used_keys,
                    h_claims >>

NextMatches == MatchesCall(1)

SpecMatches == InitMatches /\ [][NextMatches]_vars


\* ----------------------------------------- check_claim_param() on its own

\* the characters of the strings tested: a lower-case letter, an upper-case
\* letter, a digit, the six punctuation marks of the test, and a space, a
\* semicolon and a quote
ParamChars == {"a", "Z", "5", ".", ",", "-", ":", "/", "_", " ", ";", "'"}

\* a thread is about to call check_claim_param(s), s absent or a string
InitCheckParam ==
    /\ netdata_random_session_id = 0
    /\ netdata_random_session_id_filename = NULL
    /\ guid = <<>>
    /\ file = NULL
    /\ \E s \in {NULL} \cup Strings(ParamChars, MaxParamLen) :
         req = [t \in Threads |->
                  IF t = 1 THEN [Idle EXCEPT !.pc = "check_claim_param", !.token = s]
                  ELSE Idle]
    /\ crashed = FALSE
    /\ ngenerated = 0
    /\ nrequests = 0
    /\ h_used_keys = {}
    /\ h_claims = <<>>

\* check_claim_param(s) is called and returns
CheckClaimParamCall(t) ==
    LET r == req[t] IN
    /\ r.pc = "check_claim_param"
    /\ Set(t, [r EXCEPT !.pc = "checked", !.ret = check_claim_param(r.token)])
    /\ UNCHANGED << netdata_random_session_id, netdata_random_session_id_filename,
                    guid, file, crashed, ngenerated, nrequests, h_used_keys,
                    h_claims >>

NextCheckParam == CheckClaimParamCall(1)

SpecCheckParam == InitCheckParam /\ [][NextCheckParam]_vars


\* ------------------------------------------------------------------ claims

Claimable == {"AVAILABLE", "OFFLINE", "INDIRECT"}

Returned(r) == r.pc = "done"

HasMember(wb, name) == \E i \in 1..Len(wb) : wb[i][1] = name

\* C1: no generated token value authorises more than one call of claim_agent():
\* the tokens that authorised the calls made so far are all different, also
\* when two requests with the same key run at once.
C1_TokenAuthorisesOneClaim ==
    \A i, j \in DOMAIN h_claims : i # j => h_claims[i] # h_claims[j]

\* C2: a request that compared its key with the live token has called
\* netdata_random_session_id_generate() by the time it returns (on the 403, the
\* 400 and the claim exit alike), so the token it was compared with is no longer
\* live; and, requests not overlapping, a key that was compared in an earlier
\* request does not match.
C2_ComparedKeyIsSpent ==
    \A t \in Threads :
        LET r == req[t] IN
        /\ (Returned(r) /\ r.h_compared) =>
              /\ r.h_rotations >= 1
              /\ netdata_random_session_id # r.h_live
              /\ ~netdata_random_session_id_matches(netdata_random_session_id, r.key)
        /\ r.h_replay => r.h_auth = 0

\* a key that authorised a claim is sent again and is refused
C2_Witness ==
    \E t \in Threads :
        /\ Returned(req[t])
        /\ req[t].h_replay
        /\ req[t].code = HTTP_RESP_FORBIDDEN
        /\ \E i \in DOMAIN h_claims : uuid_parse_value(req[t].key) = h_claims[i]

\* C3: claim_agent() is called in a request only if the status computed at its
\* start was AVAILABLE, OFFLINE or INDIRECT, a key was supplied and matched the
\* live token, token and url were present, and token, url and (if present) rooms
\* hold only whitelisted characters; a request that returns 403 or 400 has
\* called neither claim_agent() nor claim_reload_and_wait_online().
C3_ClaimOnlyWhenAuthorised ==
    \A t \in Threads :
        LET r == req[t] IN
        /\ r.h_claim_agent > 0 =>
              /\ r.h_status \in Claimable
              /\ r.key # NULL
              /\ r.h_compared
              /\ r.h_live # 0
              /\ uuid_parse_ok(r.key)
              /\ uuid_parse_value(r.key) = r.h_live
              /\ r.token # NULL
              /\ r.base_url # NULL
              /\ check_claim_param(r.token)
              /\ check_claim_param(r.base_url)
              /\ (r.rooms # NULL => check_claim_param(r.rooms))
        /\ r.h_reload > 0 => r.h_claim_agent > 0
        /\ (Returned(r) /\ r.code \in {HTTP_RESP_FORBIDDEN, HTTP_RESP_BAD_REQUEST}) =>
              (r.h_claim_agent = 0 /\ r.h_reload = 0)

\* claim_agent() has been called with rooms given
C3_Witness ==
    \E t \in Threads : req[t].h_claim_agent > 0 /\ req[t].rooms # NULL

\* C4: when claim_agent() is called the live token is no longer the one the
\* request was authenticated with: the rotation comes first, and the key of the
\* request does not match at the call, whether the call succeeds or fails.
C4_RotatedBeforeClaim ==
    \A t \in Threads :
        LET r == req[t] IN
        /\ r.pc = "claim" =>
              /\ r.h_rotations >= 1
              /\ netdata_random_session_id # r.h_auth
              /\ ~netdata_random_session_id_matches(netdata_random_session_id, r.key)
        /\ r.h_claim_agent > 0 =>
              /\ r.h_sid_at_claim # r.h_auth
              /\ ~netdata_random_session_id_matches(r.h_sid_at_claim, r.key)

\* claim_agent() has been called and has failed
C4_Witness ==
    \E t \in Threads : req[t].h_claim_agent > 0 /\ ~req[t].h_claim_ok

\* the characters a claim parameter may hold
ClaimParamChars ==
    {"0","1","2","3","4","5","6","7","8","9",
     "a","b","c","d","e","f","g","h","i","j","k","l","m",
     "n","o","p","q","r","s","t","u","v","w","x","y","z",
     "A","B","C","D","E","F","G","H","I","J","K","L","M",
     "N","O","P","Q","R","S","T","U","V","W","X","Y","Z",
     ".", ",", "-", ":", "/", "_"}

Whitelisted(s) == \A i \in 1..Len(s) : s[i] \in ClaimParamChars

\* the code the claim gives for a request
ExpectedCode(r) ==
    IF r.h_status \in Claimable /\ r.key # NULL
          /\ ~netdata_random_session_id_matches(r.h_live, r.key)
    THEN HTTP_RESP_FORBIDDEN
    ELSE IF r.h_status \in Claimable /\ r.key # NULL
              /\ (\/ r.token = NULL
                  \/ r.base_url = NULL
                  \/ ~Whitelisted(r.token)
                  \/ ~Whitelisted(r.base_url)
                  \/ (r.rooms # NULL /\ ~Whitelisted(r.rooms)))
    THEN HTTP_RESP_BAD_REQUEST
    ELSE HTTP_RESP_OK

\* C5: the code a request returns is 403 exactly when the status is claimable,
\* a key is supplied and it does not match the live token (whatever the other
\* parameters are); 400 exactly when the status is claimable, the key matches
\* and token or url is missing or one of token, url, rooms holds a character
\* off the whitelist; and 200 in every other case.
C5_ResponseCode ==
    \A t \in Threads : Returned(req[t]) => req[t].code = ExpectedCode(req[t])

\* a wrong key with no token at all is answered 403, not 400
C5_Witness ==
    \E t \in Threads :
        /\ Returned(req[t])
        /\ req[t].code = HTTP_RESP_FORBIDDEN
        /\ req[t].token = NULL

HasInstructions(wb) ==
    HasMember(wb, "key_filename") /\ HasMember(wb, "cmd") /\ HasMember(wb, "help")

NoInstructions(wb) ==
    ~HasMember(wb, "key_filename") /\ ~HasMember(wb, "cmd") /\ ~HasMember(wb, "help")

\* C6: a request whose status is ONLINE or BANNED, whatever its parameters,
\* makes no match attempt, leaves the live token, the proof file and the
\* recorded path as they are, does not call claim_agent(), and returns 200 with
\* a report that has no key_filename, cmd, help, success or message.
C6_NotClaimableLeavesTokenAlone ==
    [][\A t \in Threads :
         (/\ req'[t] # req[t]
          /\ req'[t].pc # "idle"
          /\ req'[t].h_status \in {"ONLINE", "BANNED"})
         => /\ UNCHANGED << netdata_random_session_id,
                            netdata_random_session_id_filename, file, guid,
                            h_used_keys, h_claims >>
            /\ ~req'[t].h_compared
            /\ req'[t].h_claim_agent = 0
            /\ Returned(req'[t]) =>
                  /\ req'[t].code = HTTP_RESP_OK
                  /\ NoInstructions(req'[t].wb)
                  /\ ~HasMember(req'[t].wb, "success")
                  /\ ~HasMember(req'[t].wb, "message")]_vars

\* an ONLINE request has returned whose key is the text of the live token and
\* whose other parameters are valid
C6_Witness ==
    \E t \in Threads :
        /\ Returned(req[t])
        /\ req[t].h_status = "ONLINE"
        /\ req[t].key # NULL
        /\ netdata_random_session_id_matches(netdata_random_session_id, req[t].key)
        /\ ~ParametersInvalid(req[t].token, req[t].base_url, req[t].rooms)

\* C7: a request that supplies no key never replaces a live token that exists.
C7_StatusQueryKeepsToken ==
    [][\A t \in Threads :
         (/\ req'[t] # req[t]
          /\ req[t].pc \notin {"idle", "done"}
          /\ req[t].key = NULL
          /\ netdata_random_session_id # 0)
         => netdata_random_session_id' = netdata_random_session_id]_vars

\* C8: a report returned with 200 has can_be_claimed and the cloud status, and
\* has success and message exactly when claim_agent() was called in the request.
C8_ReportMembers ==
    \A t \in Threads :
        LET r == req[t] IN
        (Returned(r) /\ r.code = HTTP_RESP_OK) =>
            /\ HasMember(r.wb, "can_be_claimed")
            /\ HasMember(r.wb, "cloud")
            /\ HasMember(r.wb, "success") <=> r.h_claim_agent > 0
            /\ HasMember(r.wb, "message") <=> r.h_claim_agent > 0

\* the host can still be claimed when the request ends
StillClaimable(r) == r.h_status \in Claimable /\ ~r.h_claim_ok

\* C9, as stated: every response of a request at whose end the host can still
\* be claimed (a status query, or an attempt that failed at authentication, at
\* validation or at the remote call) has key_filename, cmd and help, and the
\* response after a claim that succeeded has none of them.
C9_InstructionsWheneverClaimable ==
    \A t \in Threads :
        LET r == req[t] IN
        Returned(r) =>
            /\ StillClaimable(r) => HasInstructions(r.wb)
            /\ r.h_claim_ok => NoInstructions(r.wb)

\* C9, amended: a response has key_filename, cmd and help exactly when its code
\* is 200 and the host can still be claimed (a status query, or a claim whose
\* remote call failed); the 403 and 400 responses, which hold only a text, and
\* the response after a claim that succeeded have none of them.
C9_InstructionsIn200WhenClaimable ==
    \A t \in Threads :
        LET r == req[t] IN
        Returned(r) =>
            /\ HasInstructions(r.wb) <=> (r.code = HTTP_RESP_OK /\ StillClaimable(r))
            /\ HasInstructions(r.wb) \/ NoInstructions(r.wb)

\* a claim whose remote call failed is answered with the instructions
C9_Witness ==
    \E t \in Threads :
        /\ Returned(req[t])
        /\ req[t].h_claim_agent > 0
        /\ ~req[t].h_claim_ok
        /\ HasInstructions(req[t].wb)

\* C10: no request brings the process down, whichever file operations fail.
C10_NeverCrashes == ~crashed


\* the file holds one line, the text of the token id
FileHoldsToken(f, id) == f = uuid_unparse_lower(id) \o <<"\n">>

\* the request ended with 403, with 400 or with a remote claim that failed
FailedAttempt(r) ==
    /\ Returned(r)
    /\ \/ r.code \in {HTTP_RESP_FORBIDDEN, HTTP_RESP_BAD_REQUEST}
       \/ (r.h_claim_agent > 0 /\ ~r.h_claim_ok)

\* C11: requests not overlapping, when a request has ended with 403, with 400
\* or with a failed remote claim and the writes of its rotation succeeded, the
\* proof file holds the text of the live token; neither changes until the next
\* request compares its key; and a request with a claimable status whose key is
\* the line of a file that holds the live token, and whose token, url and rooms
\* (if given) are valid, is authenticated, takes neither the 403 nor the 400
\* exit, and has called claim_agent() when it returns.
C11_FailedAttemptCanBeRetried ==
    [][\A t \in Threads :
         LET r == req'[t] IN
         /\ (FailedAttempt(r) /\ r.h_written) =>
               /\ netdata_random_session_id' # 0
               /\ FileHoldsToken(file', netdata_random_session_id')
         /\ (req'[t] # req[t] /\ req[t].pc \in {"done", "idle"}) =>
               UNCHANGED << netdata_random_session_id, file >>
         /\ (/\ r.h_compared
             /\ r.h_key_in_file
             /\ r.h_live # 0
             /\ r.key = uuid_unparse_lower(r.h_live)
             /\ r.token # NULL /\ Whitelisted(r.token)
             /\ r.base_url # NULL /\ Whitelisted(r.base_url)
             /\ (r.rooms = NULL \/ Whitelisted(r.rooms)))
            => /\ r.h_auth = r.h_live
               /\ r.pc \notin {"return_403", "return_400"}
               /\ r.ret_to \notin {"return_403", "return_400"}
               /\ Returned(r) => (r.h_claim_agent = 1 /\ r.code = HTTP_RESP_OK)]_vars

\* the first request was refused with 403, and the second, whose key is the
\* line of the file the first one wrote, has called claim_agent()
C11_Witness ==
    \E t \in Threads :
        /\ nrequests = 2
        /\ <<"0", "-", "0">> \in h_used_keys
        /\ req[t].h_key_in_file
        /\ req[t].h_claim_agent = 1


\* a string with its letters A to F in lower case
LowerCase(s) ==
    [i \in 1..Len(s) |->
       CASE s[i] = "A" -> "a" [] s[i] = "B" -> "b" [] s[i] = "C" -> "c"
         [] s[i] = "D" -> "d" [] s[i] = "E" -> "e" [] s[i] = "F" -> "f"
         [] OTHER -> s[i]]

\* C12, as stated: the match of a candidate is true exactly when a token has
\* been generated and the candidate is, character for character, the lowercase
\* text of the token; every other candidate, a spelling in another case
\* included, gives false.
C12_MatchesOnlyCanonicalText ==
    \A t \in Threads :
        req[t].pc = "matched" =>
            (req[t].ret <=>
                (/\ netdata_random_session_id # 0
                 /\ req[t].key = uuid_unparse_lower(netdata_random_session_id)))

\* C12, amended: the match of a candidate is true exactly when a token has been
\* generated and the candidate is the text of the token with each of the hex
\* letters in either case; every other candidate, malformed ones included,
\* gives false.
C12_MatchesTextInEitherCase ==
    \A t \in Threads :
        req[t].pc = "matched" =>
            (req[t].ret <=>
                (/\ netdata_random_session_id # 0
                 /\ LowerCase(req[t].key) = uuid_unparse_lower(netdata_random_session_id)))

\* the text of the live token in upper case has matched
C12_Witness ==
    \E t \in Threads :
        /\ req[t].pc = "matched"
        /\ req[t].ret
        /\ req[t].key # uuid_unparse_lower(netdata_random_session_id)


\* the value of the first member called name
Member(wb, name) == wb[CHOOSE i \in 1..Len(wb) : wb[i][1] = name][2]

\* the places of a request after the report has been started again
AfterRefresh(r) ==
    \/ r.pc \in {"instructions", "build", "finish", "done"}
    \/ r.ret_to = "build"

\* C13: a request that has called claim_agent() has called it once.  If it
\* returned true, claim_reload_and_wait_online() has been called once (never
\* without claim_agent() before it) and the report has success true and
\* message "ok"; if it returned false, claim_reload_and_wait_online() has not
\* been called and the report has success false and the failure reason as
\* message.  In both cases the report was started again with a cloud status
\* read after the call, and the request returns 200.
C13_ClaimOutcomeReported ==
    \A t \in Threads :
        LET r == req[t] IN
        /\ r.h_reload > 0 => r.h_claim_agent > 0
        /\ r.h_claim_agent > 0 =>
              /\ r.h_claim_agent = 1
              /\ r.h_reload = (IF r.h_claim_ok THEN 1 ELSE 0)
              /\ r.pc # "claim"
              /\ r.pc = "refresh" \/ AfterRefresh(r)
              /\ AfterRefresh(r) =>
                    /\ Len(r.wb) >= 3
                    /\ r.wb[1][1] = "cloud"
                    /\ r.wb[1][2] \in CLOUD_STATUS
                    /\ r.wb[2] = <<"success", JsonBool(r.h_claim_ok)>>
                    /\ r.wb[3][1] = "message"
                    /\ IF r.h_claim_ok THEN r.wb[3][2] = "ok"
                       ELSE r.wb[3][2] \in FailureReasons
                    /\ \A i \in 4..Len(r.wb) :
                          r.wb[i][1] \notin {"cloud", "success", "message"}
              /\ Returned(r) => r.code = HTTP_RESP_OK

\* a claim that failed has been reported with a cloud status that is not the
\* one the request began with
C13_Witness ==
    \E t \in Threads :
        /\ Returned(req[t])
        /\ req[t].h_claim_agent = 1
        /\ ~req[t].h_claim_ok
        /\ Member(req[t].wb, "success") = "false"
        /\ Member(req[t].wb, "cloud") # req[t].h_status


\* C14: in a request that has just computed can_be_claimed, before anything
\* else is done, can_be_claimed is true exactly when the cloud status it read
\* is AVAILABLE, OFFLINE or INDIRECT and false exactly when it is ONLINE or
\* BANNED, and the can_be_claimed member of the report says the same.
C14_CanBeClaimedByStatus ==
    \A t \in Threads :
        LET r == req[t] IN
        r.pc = "auth" =>
            /\ r.status \in CLOUD_STATUS
            /\ r.can_be_claimed <=> r.status \in {"AVAILABLE", "OFFLINE", "INDIRECT"}
            /\ ~r.can_be_claimed <=> r.status \in {"ONLINE", "BANNED"}
            /\ Member(r.wb, "cloud") = r.status
            /\ Member(r.wb, "can_be_claimed") = JsonBool(r.can_be_claimed)

\* a request has begun with the status INDIRECT and can be claimed
C14_Witness ==
    \E t \in Threads :
        /\ req[t].pc = "auth"
        /\ req[t].status = "INDIRECT"
        /\ req[t].can_be_claimed


\* C15: check_claim_param(s) returns true when s is absent or empty, and for a
\* string that is not empty it returns true exactly when each character is a
\* letter, a digit or one of . , - : / _ ; one other character, at whichever
\* position, makes it return false.
C15_CheckClaimParam ==
    \A t \in Threads :
        LET r == req[t] IN
        r.pc = "checked" =>
            /\ (r.token = NULL \/ r.token = <<>>) => r.ret
            /\ (r.token # NULL /\ r.token # <<>>) =>
                  (r.ret <=> \A i \in 1..Len(r.token) : r.token[i] \in ClaimParamChars)
            /\ (/\ r.token # NULL
                /\ \E i \in 1..Len(r.token) : r.token[i] \notin ClaimParamChars)
               => ~r.ret

\* a string whose last character alone is off the whitelist has been refused
C15_Witness ==
    \E t \in Threads :
        LET r == req[t] IN
        /\ r.pc = "checked"
        /\ ~r.ret
        /\ Len(r.token) = MaxParamLen
        /\ r.token[Len(r.token)] = ";"
        /\ \A i \in 1..(Len(r.token) - 1) : r.token[i] \in ClaimParamChars


\* the places of netdata_random_session_id_generate() after the token has been
\* replaced
GenFileSteps ==
    {"g_unparse", "g_unparse_out", "g_unlink", "g_open", "g_write", "g_newline",
     "g_record"}

\* the text of the token v does not match the live token id
TextRefused(id, v) ==
    ~netdata_random_session_id_matches(id, uuid_unparse_lower(v))

\* C16: requests not overlapping, a call of
\* netdata_random_session_id_generate() first replaces the live token with a
\* value that is not null, is not the value of before and matches no key
\* compared so far, leaving file, path and buffer as they are; through the file
\* operations, whichever of them fail, and when the call returns, true or
\* false, the live token is that new value: its text matches and the text of
\* the value of before does not; and the recorded path changes only in a call
\* that returns true.
C16_TokenReplacedWhateverTheWrite ==
    [][\A t \in Threads :
         LET r == req[t]
             q == req'[t]
         IN
         /\ (r.pc = "g_random" /\ q.pc # "g_random") =>
               /\ netdata_random_session_id' # 0
               /\ netdata_random_session_id' # netdata_random_session_id
               /\ \A k \in h_used_keys :
                     ~netdata_random_session_id_matches(netdata_random_session_id', k)
               /\ q.h_prev = netdata_random_session_id
               /\ q.h_new = netdata_random_session_id'
               /\ UNCHANGED << file, netdata_random_session_id_filename, guid >>
         /\ (q.pc \in GenFileSteps \/ (r.pc = "g_record" /\ q.pc # "g_record")) =>
               LET n == IF q.pc \in GenFileSteps THEN q.h_new ELSE r.h_new
                   p == IF q.pc \in GenFileSteps THEN q.h_prev ELSE r.h_prev
               IN /\ netdata_random_session_id' = n
                  /\ ~TextRefused(netdata_random_session_id', n)
                  /\ TextRefused(netdata_random_session_id', p)
         /\ (r.pc = "g_record" /\ q.pc # "g_record") =>
               /\ netdata_random_session_id_filename'
                     # netdata_random_session_id_filename => r.ret
               /\ ~r.ret => UNCHANGED netdata_random_session_id_filename
               /\ r.ret => netdata_random_session_id_filename' = ProofFilePath]_vars

\* a call that replaced a token is about to return false, and the text of the
\* new token matches
C16_Witness ==
    \E t \in Threads :
        /\ req[t].pc = "g_record"
        /\ ~req[t].ret
        /\ req[t].h_prev # 0
        /\ netdata_random_session_id = req[t].h_new
        /\ ~TextRefused(netdata_random_session_id, req[t].h_new)


\* C17: when netdata_random_session_id_generate() is about to return true, the
\* proof file holds exactly one line, the lowercase text of the live token and
\* a newline, whichever of the file operations failed.
C17_FileIsOneLineOnSuccess ==
    \A t \in Threads :
        (req[t].pc = "g_record" /\ req[t].ret) =>
            FileHoldsToken(file, netdata_random_session_id)


\* the thread is inside netdata_random_session_id_generate()
Generating(r) == r.pc = "g_random" \/ r.pc \in GenFileSteps

\* C18: when every call of netdata_random_session_id_generate() made so far
\* has returned (all file operations having succeeded), also by requests that
\* ran at the same time, the proof file holds the text of the live token.
C18_FileIsLiveTokenAfterRotations ==
    (ngenerated > 0 /\ \A t \in Threads : ~Generating(req[t])) =>
        FileHoldsToken(file, netdata_random_session_id)


\* C19: a report returned with 200 that has key_filename, cmd or help reports a
\* cloud status that is AVAILABLE, OFFLINE or INDIRECT, also when the status
\* read after the claim call is not the one the request began with.
C19_InstructionsOnlyWithClaimableReport ==
    \A t \in Threads :
        LET r == req[t] IN
        (Returned(r) /\ r.code = HTTP_RESP_OK /\ ~NoInstructions(r.wb)) =>
            Member(r.wb, "cloud") \in Claimable

RECURSIVE OctalDigits(_)
\* the octal digits of n, the most significant first
OctalDigits(n) == IF n < 8 THEN <<n>> ELSE Append(OctalDigits(n \div 8), n % 8)

\* C20: the mode a thread has passed to open() in
\* netdata_random_session_id_generate() is, as a bit pattern, octal 640: owner
\* read and write, group read, nothing else.
C20_OpenModeIsOctal640 ==
    \A t \in Threads :
        req[t].pc \in {"g_write", "g_newline", "g_record"} =>
            OctalDigits(req[t].mode) = <<6, 4, 0>>

====
